---------------------------- MODULE Spec2Model ----------------------------
(***************************************************************************)
(* A model of the claudish Gemini proxy:                                   *)
(*   - GeminiHandler.handleStreamingResponse (src/handlers/                *)
(*     gemini-handler.ts), the SSE re-streaming state machine, with the    *)
(*     handler's session counters and its token status file;               *)
(*   - the pure request transforms of src/transform.ts (sanitizeRoot,      *)
(*     the tool_use branch of transformClaudeToGemini, removeUriFormat).   *)
(*                                                                         *)
(* Strings that the code cuts, joins or scans are sequences of tokens; a   *)
(* token is a character or an indivisible group of characters, so a read   *)
(* of the upstream ends between characters, never inside one.  Values      *)
(* that the code draws from the clock or from Math.random (message ids,    *)
(* tool ids, updated_at) are left out: nothing the model states reads      *)
(* them.  Money is counted in units of 1e-8 dollar, so that the rates of   *)
(* 0.15 and 0.60 dollar per million tokens are the integers 15 and 60.     *)
(***************************************************************************)
EXTENDS Integers, Sequences, FiniteSets, TLC

VARIABLES
    session,              \* session id -> the locals of one start() closure
    sessionTotalCost,     \* GeminiHandler.sessionTotalCost
    sessionInputTokens,   \* GeminiHandler.sessionInputTokens
    sessionOutputTokens,  \* GeminiHandler.sessionOutputTokens
    tokenFile,            \* the last snapshot written by writeTokenFile
    arrivals,             \* requests the client has still to send
    req,                  \* sanitizeRoot: the request object
    reqInput,             \* the request as it was passed to sanitizeRoot
    dropped,              \* sanitizeRoot: the dropped-key list
    block,                \* transformClaudeToGemini: the tool_use block
    sig,                  \* the signature the block's id was formed from
    part,                 \* transformClaudeToGemini: the emitted part
    schema,               \* removeUriFormat: the input schema
    result,               \* removeUriFormat: the returned schema
    stage                 \* position of the pure-function harnesses

vars == <<session, sessionTotalCost, sessionInputTokens, sessionOutputTokens,
          tokenFile, arrivals, req, reqInput, dropped, block, sig, part, schema,
          result, stage>>

streamVars == <<session, sessionTotalCost, sessionInputTokens,
                sessionOutputTokens, tokenFile, arrivals>>

pureVars == <<req, reqInput, dropped, block, sig, part, schema, result, stage>>

-----------------------------------------------------------------------------
(* Bounds of the model.                                                    *)

\* reads of the upstream body that deliver a chunk, per session
MaxReads == 3

-----------------------------------------------------------------------------
(* Generic helpers.                                                        *)

Last(s) == s[Len(s)]

Front(s) == SubSeq(s, 1, Len(s) - 1)

Min(a, b) == IF a < b THEN a ELSE b

Max(a, b) == IF a > b THEN a ELSE b

-----------------------------------------------------------------------------
(* The upstream: Gemini frames and the text that carries them.             *)

Null == [null |-> TRUE]

NoCall == [present |-> FALSE, name |-> "", args |-> <<>>]

Call(n, a) == [present |-> TRUE, name |-> n, args |-> a]

\* one element of candidate.content.parts; isNull is a JSON null in the list
Part(t, fc) == [isNull |-> FALSE, text |-> t, functionCall |-> fc]

NullPart == [isNull |-> TRUE, text |-> "", functionCall |-> NoCall]

NoUsageMetadata == [present |-> FALSE, promptTokenCount |-> 0,
                    candidatesTokenCount |-> 0]

UsageMetadata(p, c) == [present |-> TRUE, promptTokenCount |-> p,
                        candidatesTokenCount |-> c]

\* a parsed frame: chunk.candidates?.[0], its parts and finishReason ("" is
\* an absent finishReason), and chunk.usageMetadata
Frame(cand, ps, fin, um) ==
    [candidate |-> cand, parts |-> ps, finishReason |-> fin,
     usageMetadata |-> um]

\* the frames the upstream of the model can send
Frames ==
    << Frame(TRUE, <<Part("Hi", NoCall)>>, "", NoUsageMetadata),
       Frame(TRUE, <<Part(" there", NoCall)>>, "STOP", UsageMetadata(10, 2)),
       Frame(TRUE, <<Part("", Call("f", << <<"a", 1>> >>))>>, "",
             NoUsageMetadata),
       Frame(TRUE, <<>>, "", UsageMetadata(5, 3)),
       Frame(FALSE, <<>>, "", UsageMetadata(7, 4)),
       Frame(TRUE, <<Part("", NoCall), Part("ok", Call("g", <<>>))>>,
             "MAX_TOKENS", NoUsageMetadata),
       Frame(TRUE, <<Part("Hi", NoCall), NullPart>>, "STOP",
             UsageMetadata(9, 9)),
       Frame(TRUE, <<>>, "SAFETY", NoUsageMetadata),
       Frame(TRUE, <<Part("!", NoCall)>>, "", NoUsageMetadata) >>

FrameIds == DOMAIN Frames

\* tokens of the upstream text
Tok(t, i) == [t |-> t, id |-> i]

NL == Tok("\n", 0)

SP == Tok(" ", 0)

DATA == Tok("data: ", 0)

DONE == Tok("[DONE]", 0)

COLON == Tok(":", 0)

WORD == Tok("word", 0)

\* the JSON text of frame i, in two pieces: only both, in order, parse
JA(i) == Tok("json-head", i)

JB(i) == Tok("json-tail", i)

\* the data line of frame i, newline included
FrameLine(i) == <<DATA, JA(i), JB(i), NL>>


-----------------------------------------------------------------------------
(* Line handling of the read loop.                                         *)

\* buffer.split("\n"): the pieces between the newlines, at least one
RECURSIVE Split(_)
Split(s) ==
    IF \A i \in 1..Len(s) : s[i] # NL
    THEN <<s>>
    ELSE LET i == CHOOSE k \in 1..Len(s) :
                      s[k] = NL /\ \A j \in 1..(k - 1) : s[j] # NL
         IN  <<SubSeq(s, 1, i - 1)>> \o Split(SubSeq(s, i + 1, Len(s)))

\* String.prototype.trim
RECURSIVE Trim(_)
Trim(s) ==
    IF s = <<>> THEN s
    ELSE IF Head(s) = SP THEN Trim(Tail(s))
    ELSE IF Last(s) = SP THEN Trim(Front(s))
    ELSE s

StartsWith(line, tok) == Len(line) > 0 /\ line[1] = tok

\* JSON.parse(jsonStr) returns an object: the two pieces of one frame
IsJSON(jsonStr) ==
    LET t == Trim(jsonStr)
    IN  /\ Len(t) = 2
        /\ t[1].t = "json-head"
        /\ t[2].t = "json-tail"
        /\ t[1].id = t[2].id

ParseJSON(jsonStr) == Frames[Trim(jsonStr)[1].id]

-----------------------------------------------------------------------------
(* JSON.stringify of a function call's argument object: an ordered list of *)
(* <<key, number>> members.                                                *)

RECURSIVE Members(_)
Members(args) ==
    IF args = <<>> THEN ""
    ELSE "\"" \o args[1][1] \o "\":" \o ToString(args[1][2])
         \o (IF Len(args) > 1 THEN "," ELSE "") \o Members(Tail(args))

JSONStringify(args) == "{" \o Members(args) \o "}"

-----------------------------------------------------------------------------
(* The locals of one start(controller) closure and the events it sends.    *)

NewSession ==
    [pc              |-> "idle",     \* idle | reading | done | caught
     done            |-> FALSE,      \* reader.read() has returned done
     isClosed        |-> FALSE,
     usage           |-> Null,
     finalized       |-> FALSE,
     textStarted     |-> FALSE,
     textIdx         |-> -1,
     curIdx          |-> 0,
     tools           |-> <<>>,
     accumulatedText |-> "",
     buffer          |-> <<>>,
     enqueued        |-> <<>>,       \* what controller.enqueue was given
     controller      |-> "readable", \* readable | closed | cancelled
     received        |-> <<>>]       \* the values reader.read() returned

\* a send that does not look at isClosed
SendIgnoresClosed(L, e) == [L EXCEPT !.enqueued = Append(@, e)]

\* send(e, d)
Send(L, e) ==
    IF ~L.isClosed THEN [L EXCEPT !.enqueued = Append(@, e)] ELSE L

MessageStart ==
    [event |-> "message_start", role |-> "assistant",
     usage |-> [input_tokens |-> 100, output_tokens |-> 1]]

TextBlockStart(i) ==
    [event |-> "content_block_start", index |-> i,
     content_block |-> [type |-> "text", text |-> ""]]

TextDelta(i, t) ==
    [event |-> "content_block_delta", index |-> i,
     delta |-> [type |-> "text_delta", text |-> t]]

ToolBlockStart(i, n) ==
    [event |-> "content_block_start", index |-> i,
     content_block |-> [type |-> "tool_use", name |-> n]]

InputJsonDelta(i, j) ==
    [event |-> "content_block_delta", index |-> i,
     delta |-> [type |-> "input_json_delta", partial_json |-> j]]

BlockStop(i) == [event |-> "content_block_stop", index |-> i]

\* usage || { output_tokens: 0 }
UsageOrZero(u) == IF u = Null THEN [output_tokens |-> 0] ELSE u

MessageDelta(sr, u) ==
    [event |-> "message_delta",
     delta |-> [stop_reason |-> sr, stop_sequence |-> "null"],
     usage |-> UsageOrZero(u)]

MessageStop == [event |-> "message_stop"]

ErrorEvent ==
    [event |-> "error", error |-> [type |-> "api_error"]]

-----------------------------------------------------------------------------
(* The body of the read loop, lines 174-289.                               *)

\* a text block that takes the current index and leaves the counter alone
TextPartKeepsIndex(L, p) ==
    IF p.text = "" THEN L
    ELSE LET L1 == IF ~L.textStarted
                   THEN Send([L EXCEPT !.textStarted = TRUE,
                                       !.textIdx = L.curIdx],
                             TextBlockStart(L.curIdx))
                   ELSE L
             L2 == [L1 EXCEPT !.accumulatedText = @ \o p.text]
         IN  Send(L2, TextDelta(L2.textIdx, p.text))

\* if (part.text) { ... }
TextPart(L, p) ==
    IF p.text = "" THEN L
    ELSE LET L1 == IF ~L.textStarted
                   THEN Send([L EXCEPT !.textStarted = TRUE,
                                       !.textIdx = L.curIdx,
                                       !.curIdx = L.curIdx + 1],
                             TextBlockStart(L.curIdx))
                   ELSE L
             L2 == [L1 EXCEPT !.accumulatedText = @ \o p.text]
         IN  Send(L2, TextDelta(L2.textIdx, p.text))

\* a tool block that is started and filled but never stopped
FunctionCallPartNoStop(L, p) ==
    IF ~p.functionCall.present THEN L
    ELSE LET name    == p.functionCall.name
             args    == p.functionCall.args
             toolIdx == L.curIdx
             L1 == [L EXCEPT !.curIdx = @ + 1]
             L2 == Send(L1, ToolBlockStart(toolIdx, name))
             L3 == Send(L2, InputJsonDelta(toolIdx, JSONStringify(args)))
         IN  [L3 EXCEPT !.tools =
                  (toolIdx :> [name |-> name, args |-> args]) @@ @]

\* if (part.functionCall) { ... }
FunctionCallPart(L, p) ==
    IF ~p.functionCall.present THEN L
    ELSE LET name    == p.functionCall.name
             args    == p.functionCall.args
             toolIdx == L.curIdx
             L1 == [L EXCEPT !.curIdx = @ + 1]
             L2 == Send(L1, ToolBlockStart(toolIdx, name))
             L3 == Send(L2, InputJsonDelta(toolIdx, JSONStringify(args)))
             L4 == Send(L3, BlockStop(toolIdx))
         IN  [L4 EXCEPT !.tools =
                  (toolIdx :> [name |-> name, args |-> args]) @@ @]

\* for (const part of parts): reading part.text of a null part throws a
\* TypeError, which leaves the loop for the catch of line 285
RECURSIVE PartsLoop(_, _)
PartsLoop(L, parts) ==
    IF parts = <<>> THEN [L |-> L, threw |-> FALSE]
    ELSE IF Head(parts).isNull THEN [L |-> L, threw |-> TRUE]
    ELSE PartsLoop(FunctionCallPart(TextPart(L, Head(parts)), Head(parts)),
                   Tail(parts))

\* a tally that adds each frame's output tokens to the previous ones
TrackUsageSummed(L, chunk) ==
    IF chunk.usageMetadata.present
    THEN [L EXCEPT !.usage =
              [input_tokens  |-> chunk.usageMetadata.promptTokenCount,
               output_tokens |->
                   (IF L.usage = Null THEN 0 ELSE L.usage.output_tokens)
                   + chunk.usageMetadata.candidatesTokenCount]]
    ELSE L

\* if (chunk.usageMetadata) { usage = ... }
TrackUsage(L, chunk) ==
    IF chunk.usageMetadata.present
    THEN [L EXCEPT !.usage =
              [input_tokens  |-> chunk.usageMetadata.promptTokenCount,
               output_tokens |-> chunk.usageMetadata.candidatesTokenCount]]
    ELSE L

\* a mapping that knows MAX_TOKENS only
StopReasonNoStop(finishReason) ==
    IF finishReason = "MAX_TOKENS" THEN "max_tokens" ELSE "null"

\* Map finish reason
StopReason(finishReason) ==
    IF finishReason = "STOP" THEN "end_turn"
    ELSE IF finishReason = "MAX_TOKENS" THEN "max_tokens"
    ELSE "null"

\* if (candidate.finishReason && !finalized) { ... }
FinishReason(L, chunk) ==
    IF chunk.finishReason # "" /\ ~L.finalized
    THEN LET L1 == [L EXCEPT !.finalized = TRUE]
             L2 == IF L1.textStarted THEN Send(L1, BlockStop(L1.textIdx))
                   ELSE L1
         IN  Send(L2, MessageDelta(StopReason(chunk.finishReason), L2.usage))
    ELSE L

\* the try block of lines 182-284 on one parsed frame
HandleChunk(L, chunk) ==
    IF ~chunk.candidate THEN L
    ELSE LET r == PartsLoop(L, chunk.parts)
         IN  IF r.threw THEN r.L
             ELSE FinishReason(TrackUsage(r.L, chunk), chunk)

\* one turn of for (const line of lines)
HandleLine(L, line) ==
    IF Trim(line) = <<>> \/ StartsWith(line, COLON) THEN L
    ELSE IF StartsWith(line, DATA)
    THEN LET jsonStr == Tail(line)
         IN  IF Trim(jsonStr) = <<DONE>> THEN L
             ELSE IF IsJSON(jsonStr) THEN HandleChunk(L, ParseJSON(jsonStr))
             ELSE L          \* JSON.parse threw: logged at line 286
    ELSE L

RECURSIVE LinesLoop(_, _)
LinesLoop(L, lines) ==
    IF lines = <<>> THEN L
    ELSE LinesLoop(HandleLine(L, Head(lines)), Tail(lines))

\* a read that splits the value alone and forgets the carried-over text
HandleValueNoCarry(L, value) ==
    LET lines == Split(value)
    IN  LinesLoop([L EXCEPT !.buffer = Last(lines),
                            !.received = Append(@, value)],
                  Front(lines))

\* lines 170-289: one value of reader.read() with done = false
HandleValue(L, value) ==
    LET text  == L.buffer \o value      \* decoder.decode(value, {stream})
        lines == Split(text)
    IN  LinesLoop([L EXCEPT !.buffer = Last(lines),
                            !.received = Append(@, value)],
                  Front(lines))

\* the final events without the test of the finalized flag
FinalEventsUnguarded(L) ==
    Send(Send(IF L.textStarted THEN Send(L, BlockStop(L.textIdx)) ELSE L,
              MessageDelta("end_turn", L.usage)),
         MessageStop)

\* lines 292-308: the events after the loop
FinalEvents(L) ==
    LET L1 == IF ~L.finalized
              THEN Send(IF L.textStarted THEN Send(L, BlockStop(L.textIdx))
                        ELSE L,
                        MessageDelta("end_turn", L.usage))
              ELSE L
    IN  Send(L1, MessageStop)

-----------------------------------------------------------------------------
(* The handler's counters and its status file.                             *)

ContextWindow == 200000

InputRate == 15

OutputRate == 60

\* Math.round(((limit - total) / limit) * 100), clamped to 0..100
LeftPct(total, limit) ==
    IF limit > 0
    THEN Max(0, Min(100, (2 * 100 * (limit - total) + limit) \div (2 * limit)))
    ELSE 100

\* writeTokenFile(input, output): the object given to writeFileSync
TokenFileData(input, output, cost) ==
    [input_tokens         |-> input,
     output_tokens        |-> output,
     total_tokens         |-> input + output,
     total_cost           |-> cost,
     context_window       |-> ContextWindow,
     context_left_percent |-> LeftPct(input + output, ContextWindow)]

-----------------------------------------------------------------------------
(* The stream sessions of one handler.  A slot holds the closure of the    *)
(* request it serves; a later request in the same slot gets a new closure. *)

Sessions == {"s1"}

\* the requests the client sends to the handler, one after the other
Arrivals == <<"first", "second">>

\* the values one reader.read() of the model can return
Chunks ==
    {FrameLine(i) : i \in FrameIds}
      \cup { <<COLON, WORD, NL, SP, NL, WORD, NL, DATA, DONE, NL>>,
             <<DATA, JA(1), NL>>,
             <<DATA, JA(2)>>,
             <<JB(2), NL>> }

\* the constructor, and the state of the transforms' harness at rest
StreamInit ==
    /\ session = [s \in Sessions |-> NewSession]
    /\ sessionTotalCost = 0
    /\ sessionInputTokens = 0
    /\ sessionOutputTokens = 0
    /\ tokenFile = TokenFileData(0, 0, 0)
    /\ arrivals = Arrivals

\* handleStreamingResponse up to the first await: message_start is sent
Start(s) ==
    /\ session[s].pc \in {"idle", "done", "caught"}
    /\ arrivals # <<>>
    /\ arrivals' = Tail(arrivals)
    /\ session' = [session EXCEPT
                     ![s] = Send([NewSession EXCEPT !.pc = "reading"],
                                 MessageStart)]
    /\ UNCHANGED <<sessionTotalCost, sessionInputTokens, sessionOutputTokens,
                   tokenFile>>

\* reader.read() resolves with a value: lines 167-290
Read(s, value) ==
    /\ session[s].pc = "reading"
    /\ Len(session[s].received) < MaxReads
    /\ session' = [session EXCEPT ![s] = HandleValue(@, value)]
    /\ UNCHANGED <<sessionTotalCost, sessionInputTokens, sessionOutputTokens,
                   tokenFile, arrivals>>

\* an end of the upstream that stores the session's output tokens in the
\* handler's counter in place of adding them
ReadDoneReplacesOutput(s) ==
    LET L == FinalEvents(session[s])
    IN  /\ session[s].pc = "reading"
        /\ IF L.usage # Null
           THEN /\ sessionInputTokens' = L.usage.input_tokens
                /\ sessionOutputTokens' = L.usage.output_tokens
                /\ tokenFile' = TokenFileData(sessionInputTokens',
                                              sessionOutputTokens',
                                              sessionTotalCost)
                /\ sessionTotalCost' =
                       sessionTotalCost + L.usage.input_tokens * InputRate
                                        + L.usage.output_tokens * OutputRate
           ELSE UNCHANGED <<sessionTotalCost, sessionInputTokens,
                            sessionOutputTokens, tokenFile>>
        /\ session' = [session EXCEPT ![s] =
               IF L.controller = "cancelled"
               THEN [L EXCEPT !.pc = "caught", !.done = TRUE]
               ELSE [L EXCEPT !.pc = "done", !.done = TRUE,
                              !.controller = "closed", !.isClosed = TRUE]]
        /\ UNCHANGED arrivals

\* reader.read() resolves with done: lines 292-323.  controller.close()
\* throws on a cancelled stream, and the catch then finds isClosed set.
ReadDone(s) ==
    LET L == FinalEvents(session[s])
    IN  /\ session[s].pc = "reading"
        /\ IF L.usage # Null
           THEN /\ sessionInputTokens' = L.usage.input_tokens
                /\ sessionOutputTokens' =
                       sessionOutputTokens + L.usage.output_tokens
                /\ tokenFile' = TokenFileData(sessionInputTokens',
                                              sessionOutputTokens',
                                              sessionTotalCost)
                /\ sessionTotalCost' =
                       sessionTotalCost + L.usage.input_tokens * InputRate
                                        + L.usage.output_tokens * OutputRate
           ELSE UNCHANGED <<sessionTotalCost, sessionInputTokens,
                            sessionOutputTokens, tokenFile>>
        /\ session' = [session EXCEPT ![s] =
               IF L.controller = "cancelled"
               THEN [L EXCEPT !.pc = "caught", !.done = TRUE]
               ELSE [L EXCEPT !.pc = "done", !.done = TRUE,
                              !.controller = "closed", !.isClosed = TRUE]]
        /\ UNCHANGED arrivals

\* a catch block that reports the error and leaves the stream open
ReadThrowsLeavesOpen(s) ==
    /\ session[s].pc = "reading"
    /\ session' = [session EXCEPT ![s] =
           [Send(@, ErrorEvent) EXCEPT !.pc = "caught"]]
    /\ UNCHANGED <<sessionTotalCost, sessionInputTokens, sessionOutputTokens,
                   tokenFile, arrivals>>

\* reader.read() rejects, or response.body is missing: lines 324-337
ReadThrows(s) ==
    /\ session[s].pc = "reading"
    /\ session' = [session EXCEPT ![s] =
           IF ~@.isClosed
           THEN [Send(@, ErrorEvent) EXCEPT !.pc = "caught",
                                            !.controller = "closed",
                                            !.isClosed = TRUE]
           ELSE [@ EXCEPT !.pc = "caught"]]
    /\ UNCHANGED <<sessionTotalCost, sessionInputTokens, sessionOutputTokens,
                   tokenFile, arrivals>>

\* cancel(): the consumer tears the outbound stream down
Cancel(s) ==
    /\ session[s].pc = "reading"
    /\ session[s].controller = "readable"
    /\ session' = [session EXCEPT ![s].isClosed = TRUE,
                                  ![s].controller = "cancelled"]
    /\ UNCHANGED <<sessionTotalCost, sessionInputTokens, sessionOutputTokens,
                   tokenFile, arrivals>>

PureIdle ==
    /\ req = <<>>
    /\ reqInput = <<>>
    /\ dropped = <<>>
    /\ block = <<>>
    /\ sig = <<>>
    /\ part = <<>>
    /\ schema = <<>>
    /\ result = <<>>
    /\ stage = "idle"

Init == StreamInit /\ PureIdle

Next ==
    \/ \E s \in Sessions : Start(s) /\ UNCHANGED pureVars
    \/ \E s \in Sessions, value \in Chunks :
           Read(s, value) /\ UNCHANGED pureVars
    \/ \E s \in Sessions : ReadDone(s) /\ UNCHANGED pureVars
    \/ \E s \in Sessions : ReadThrows(s) /\ UNCHANGED pureVars
    \/ \E s \in Sessions : Cancel(s) /\ UNCHANGED pureVars

Spec == Init /\ [][Next]_vars

-----------------------------------------------------------------------------
(* Vocabulary of the statements about stream sessions.                     *)

\* how many events of sequence e are named n
CountEv(e, n) == Cardinality({i \in 1..Len(e) : e[i].event = n})

IsBlockEvent(x) ==
    x.event \in {"content_block_start", "content_block_delta",
                 "content_block_stop"}

IsStart(x) == x.event = "content_block_start"

\* the content_block_start events of e, in emission order
Starts(e) == SelectSeq(e, IsStart)

\* the events a step added to the outbound stream of session s
Added(old, new) == SubSeq(new.enqueued, Len(old.enqueued) + 1,
                          Len(new.enqueued))

\* the step is a read of session s that returned a value
ReadStep(old, new) ==
    /\ old.pc = "reading"
    /\ new.pc = "reading"
    /\ Len(new.received) = Len(old.received) + 1

\* the step is the read of session s that returned done
DoneStep(old, new) == old.pc = "reading" /\ ~old.done /\ new.done

\* the step is a read of session s that threw
ThrowStep(old, new) == old.pc = "reading" /\ new.pc = "caught" /\ ~new.done

RECURSIVE Concat(_)
Concat(ss) == IF ss = <<>> THEN <<>> ELSE Head(ss) \o Concat(Tail(ss))

IsFrameLine(line) == StartsWith(line, DATA) /\ IsJSON(Tail(line))

FrameOfLine(line) == ParseJSON(Tail(line))

\* the frames of the complete data lines of what was read, in order
FramesRead(received) ==
    LET lines == SelectSeq(Front(Split(Concat(received))), IsFrameLine)
    IN  [i \in 1..Len(lines) |-> FrameOfLine(lines[i])]

CarriesUsage(f) == f.usageMetadata.present

HasNullPart(f) == \E i \in 1..Len(f.parts) : f.parts[i].isNull

\* the frame reaches the usage step of line 253
UsageTracked(f) == f.candidate /\ ~HasNullPart(f) /\ CarriesUsage(f)

-----------------------------------------------------------------------------
\* C1: a session whose read loop ends without an exception and whose
\* consumer never cancels (pc = "done") has emitted exactly one
\* message_start, as its first event, exactly one message_delta, and exactly
\* one message_stop, as its last event.
C1_StartDeltaStop ==
    \A s \in Sessions :
        session[s].pc = "done" =>
            LET e == session[s].enqueued
            IN  /\ Len(e) >= 3
                /\ e[1].event = "message_start"
                /\ CountEv(e, "message_start") = 1
                /\ CountEv(e, "message_delta") = 1
                /\ CountEv(e, "message_stop") = 1
                /\ Last(e).event = "message_stop"

\* a normal end after a frame with a finishReason and a later text frame
C1_Witness ==
    \E s \in Sessions :
        /\ session[s].pc = "done"
        /\ session[s].finalized
        /\ Len(session[s].received) = 3
        /\ \E i \in 1..Len(session[s].enqueued) :
               /\ session[s].enqueued[i].event = "message_delta"
               /\ i + 1 < Len(session[s].enqueued)

\* C2: the indices of the content_block_start events of a session are
\* 0, 1, 2, ... in emission order.
C2_StartIndices ==
    \A s \in Sessions :
        LET st == Starts(session[s].enqueued)
        IN  \A i \in 1..Len(st) : st[i].index = i - 1

\* three blocks or more, tool calls before and after the text block
C2_Witness ==
    \E s \in Sessions :
        LET st == Starts(session[s].enqueued)
        IN  /\ Len(st) >= 3
            /\ st[1].content_block.type = "tool_use"
            /\ st[2].content_block.type = "text"
            /\ st[3].content_block.type = "tool_use"

\* C3: a frame read after the finalized flag is set adds no message_delta
\* and no content_block_stop to the outbound stream.
C3_NothingAfterFinalized ==
    [][\A s \in Sessions :
          (session[s].finalized /\ ReadStep(session[s], session'[s])) =>
              \A i \in 1..Len(Added(session[s], session'[s])) :
                  Added(session[s], session'[s])[i].event
                      \notin {"message_delta", "content_block_stop"}]_vars

\* the data line of a frame that carries exactly one non-empty text part
\* and no function call
IsTextFrameLine(value) ==
    \E i \in FrameIds :
        /\ value = FrameLine(i)
        /\ Frames[i].candidate
        /\ Len(Frames[i].parts) = 1
        /\ ~Frames[i].parts[1].isNull
        /\ Frames[i].parts[1].text # ""
        /\ ~Frames[i].parts[1].functionCall.present

FrameOfValue(value) == Frames[value[2].id]

\* n >= 1 frames of one text part each, the last alone carrying finishReason
\* STOP and usage metadata
IsTextRun(received) ==
    /\ Len(received) >= 1
    /\ \A i \in 1..Len(received) :
           /\ IsTextFrameLine(received[i])
           /\ IF i = Len(received)
              THEN /\ FrameOfValue(received[i]).finishReason = "STOP"
                   /\ CarriesUsage(FrameOfValue(received[i]))
              ELSE /\ FrameOfValue(received[i]).finishReason = ""
                   /\ ~CarriesUsage(FrameOfValue(received[i]))

\* the event sequence the claim gives for such a run
TextRunEvents(received) ==
    LET n == Len(received)
        u == FrameOfValue(received[n]).usageMetadata
    IN  <<MessageStart, TextBlockStart(0)>>
        \o [i \in 1..n |-> TextDelta(0, FrameOfValue(received[i]).parts[1].text)]
        \o <<BlockStop(0),
             MessageDelta("end_turn",
                          [input_tokens  |-> u.promptTokenCount,
                           output_tokens |-> u.candidatesTokenCount]),
             MessageStop>>

\* C4 as stated: whenever the upstream was such a run of text frames and has
\* ended, the emitted sequence is message_start, content_block_start(text,
\* 0), the n text deltas in order, content_block_stop(0), message_delta
\* (end_turn, usage p and c), message_stop.
C4_TextRunAsStated ==
    \A s \in Sessions :
        (session[s].done /\ IsTextRun(session[s].received)) =>
            session[s].enqueued = TextRunEvents(session[s].received)

\* C4, amended: the same, for a session whose consumer has not cancelled
\* the outbound stream.
C4_TextRun ==
    \A s \in Sessions :
        (/\ session[s].done
         /\ session[s].controller # "cancelled"
         /\ IsTextRun(session[s].received)) =>
            session[s].enqueued = TextRunEvents(session[s].received)

\* a finished run of three text frames with two different texts before the last
C4_Witness ==
    \E s \in Sessions :
        /\ session[s].pc = "done"
        /\ IsTextRun(session[s].received)
        /\ Len(session[s].received) = 3
        /\ session[s].received[1] # session[s].received[2]
        /\ session[s].enqueued = TextRunEvents(session[s].received)

\* the events of e that carry content-block index idx
WithIndex(e, idx) ==
    {i \in 1..Len(e) : IsBlockEvent(e[i]) /\ e[i].index = idx}

\* the step sent, for the call recorded under idx, its three events next to
\* each other and no other event with that index
ToolTriple(old, new, idx) ==
    /\ \E i \in (Len(old.enqueued) + 1)..(Len(new.enqueued) - 2) :
           /\ new.enqueued[i] = ToolBlockStart(idx, new.tools[idx].name)
           /\ new.enqueued[i + 1] =
                  InputJsonDelta(idx, JSONStringify(new.tools[idx].args))
           /\ new.enqueued[i + 2] = BlockStop(idx)
    /\ Cardinality(WithIndex(new.enqueued, idx)) = 3

\* the calls a step recorded in the tools map
NewCalls(old, new) ==
    IF ReadStep(old, new) THEN DOMAIN new.tools \ DOMAIN old.tools ELSE {}

\* C5 as stated: every function-call part the read loop handles produces
\* content_block_start(tool_use, name), one input_json_delta with the whole
\* serialized argument object and content_block_stop, adjacent, with one
\* fresh index.
C5_ToolTripleAsStated ==
    [][\A s \in Sessions :
          \A idx \in NewCalls(session[s], session'[s]) :
              ToolTriple(session[s], session'[s], idx)]_vars

\* C5, amended: so it is while the outbound stream is not closed; once the
\* consumer has cancelled, a function-call part produces no event.
C5_ToolTriple ==
    [][\A s \in Sessions :
          \A idx \in NewCalls(session[s], session'[s]) :
              IF session[s].isClosed
              THEN session'[s].enqueued = session[s].enqueued
              ELSE ToolTriple(session[s], session'[s], idx)]_vars

\* two calls sent as two triples, the second after a text delta
C5_Witness ==
    \E s \in Sessions :
        LET e == session[s].enqueued
        IN  /\ ~session[s].isClosed
            /\ Cardinality(DOMAIN session[s].tools) = 2
            /\ \E i \in 1..Len(e) :
                   /\ i + 3 <= Len(e)
                   /\ e[i].event = "content_block_delta"
                   /\ e[i].delta.type = "text_delta"
                   /\ e[i + 1] = ToolBlockStart(2, "g")
                   /\ e[i + 2] = InputJsonDelta(2, "{}")
                   /\ e[i + 3] = BlockStop(2)
            /\ \E i \in 1..Len(e) : e[i] = InputJsonDelta(0, "{\"a\":1}")

\* the sum of the output-token counts of frames fs
RECURSIVE SumOutput(_)
SumOutput(fs) ==
    IF fs = <<>> THEN 0
    ELSE Head(fs).usageMetadata.candidatesTokenCount + SumOutput(Tail(fs))

\* C6 as stated: when a session in which several frames carried usage
\* metadata completes, the output-token counter grows by the sum of those
\* frames' output-token counts and the input-token counter is the latest
\* such frame's input-token count.
C6_CountersAsStated ==
    [][\A s \in Sessions :
          LET fs == SelectSeq(FramesRead(session[s].received), CarriesUsage)
          IN  (DoneStep(session[s], session'[s]) /\ Len(fs) >= 2) =>
                  /\ sessionOutputTokens' = sessionOutputTokens + SumOutput(fs)
                  /\ sessionInputTokens' =
                         Last(fs).usageMetadata.promptTokenCount]_vars

\* C6, amended: the output-token counter grows by the output-token count
\* of the latest frame whose usage metadata was recorded (a frame with a
\* first candidate and no failing part), and the input-token counter is that
\* frame's input-token count; with no such frame neither counter changes.
C6_Counters ==
    [][\A s \in Sessions :
          LET fs == SelectSeq(FramesRead(session[s].received), UsageTracked)
          IN  DoneStep(session[s], session'[s]) =>
                  IF Len(fs) >= 1
                  THEN /\ sessionOutputTokens' =
                              sessionOutputTokens
                              + Last(fs).usageMetadata.candidatesTokenCount
                       /\ sessionInputTokens' =
                              Last(fs).usageMetadata.promptTokenCount
                  ELSE UNCHANGED <<sessionOutputTokens,
                                   sessionInputTokens>>]_vars

\* a second session of the handler has completed after two recorded usage
\* frames with different counts, on top of the first session's tokens
C6_Witness ==
    \E s \in Sessions :
        LET fs == SelectSeq(FramesRead(session[s].received), UsageTracked)
        IN  /\ session[s].pc = "done"
            /\ Len(fs) = 2
            /\ fs[1].usageMetadata # fs[2].usageMetadata
            /\ sessionOutputTokens >
                   fs[1].usageMetadata.candidatesTokenCount
                   + fs[2].usageMetadata.candidatesTokenCount
            /\ sessionInputTokens = fs[2].usageMetadata.promptTokenCount

\* C7: a read that throws while the session is not closed adds exactly one
\* error event and closes the outbound stream; the error event is the only
\* one of the session and stays its last event; and a session has an error
\* event only if a read threw, whatever malformed frames it was given.
C7_ErrorPath ==
    [][\A s \in Sessions :
          LET old == session[s]
              new == session'[s]
          IN  /\ (ThrowStep(old, new) /\ ~old.isClosed) =>
                     /\ new.enqueued = Append(old.enqueued, ErrorEvent)
                     /\ new.controller = "closed"
                     /\ new.isClosed
              /\ CountEv(new.enqueued, "error") <= 1
              /\ CountEv(new.enqueued, "error") = 1 =>
                     /\ Last(new.enqueued) = ErrorEvent
                     /\ new.pc = "caught"
                     /\ ~new.done]_vars

\* an error event after a finalized stream that also had a truncated data
\* line and a frame with a null part
C7_Witness ==
    \E s \in Sessions :
        /\ session[s].pc = "caught"
        /\ session[s].finalized
        /\ Last(session[s].enqueued) = ErrorEvent
        /\ \E i \in 1..Len(session[s].received) :
               session[s].received[i] = <<DATA, JA(1), NL>>
        /\ \E i \in 1..Len(session[s].received) :
               session[s].received[i] = FrameLine(7)

\* the places of list e that hold an event of the given kind and index
Places(e, kind, idx) ==
    {n \in 1..Len(e) : e[n].event = kind /\ e[n].index = idx}

\* the block indices that occur in list e
BlockIndices(e) == {e[n].index : n \in {m \in 1..Len(e) : IsBlockEvent(e[m])}}

\* the events of index idx in e are one start, then deltas, then one stop
WellFormedBlock(e, idx) ==
    LET starts == Places(e, "content_block_start", idx)
        deltas == Places(e, "content_block_delta", idx)
        stops  == Places(e, "content_block_stop", idx)
    IN  /\ Cardinality(starts) = 1
        /\ Cardinality(stops) = 1
        /\ \A a \in starts, d \in deltas, z \in stops : a < d /\ d < z
        /\ \A a \in starts, z \in stops : a < z

\* C12: in a session that has completed normally the events of every block
\* index are one content_block_start, then its deltas, then one
\* content_block_stop, and every block is stopped before message_delta.
C12_WellFormedBlocks ==
    \A s \in Sessions :
        session[s].pc = "done" =>
            LET e == session[s].enqueued
            IN  \A idx \in BlockIndices(e) :
                    /\ WellFormedBlock(e, idx)
                    /\ \A z \in Places(e, "content_block_stop", idx),
                          n \in 1..Len(e) :
                              e[n].event = "message_delta" => z < n

\* C13: once the consumer has cancelled the outbound stream, no step of
\* the session (a read of a further upstream value, the end of the
\* upstream, a failing read) enqueues an event.
C13_CancelSuppresses ==
    [][\A s \in Sessions :
           (session[s].pc = "reading" /\ session[s].controller = "cancelled")
               => session'[s].enqueued = session[s].enqueued]_vars

\* a session cancelled right after message_start has read two text frames,
\* the second with a finish reason and usage, up to the end of the upstream
C13_Witness ==
    \E s \in Sessions :
        /\ session[s].controller = "cancelled"
        /\ session[s].pc = "caught"
        /\ session[s].done
        /\ session[s].received = <<FrameLine(1), FrameLine(2)>>
        /\ session[s].finalized
        /\ session[s].usage # Null
        /\ session[s].enqueued = <<MessageStart>>

\* C14: when a session that saw usage metadata reaches the end of its
\* upstream, the snapshot written to the status file carries as total_cost
\* the running cost total with that session's cost added.
C14_SnapshotAfterCost ==
    [][\A s \in Sessions :
           (DoneStep(session[s], session'[s]) /\ session'[s].usage # Null)
               => tokenFile'.total_cost = sessionTotalCost']_vars

-----------------------------------------------------------------------------
(* One session whose upstream arrives in pieces that cut the text anywhere: *)
(* inside a data line, right after a newline, several lines in one read,    *)
(* an empty read.                                                           *)

\* most reads of the session
MaxPieces == 4

\* the values one reader.read() returns here
Pieces ==
    { <<>>,
      <<NL>>,
      <<DATA>>,
      <<JA(1)>>,
      <<DATA, JA(1)>>,
      <<JB(1), NL>>,
      <<JB(1), NL, DATA, JA(2)>>,
      <<JB(2), NL>>,
      <<JB(2)>>,
      FrameLine(3),
      FrameLine(1) \o FrameLine(2),
      <<NL, DATA, JA(3), JB(3)>> }

PiecesInit ==
    /\ session = [s \in Sessions |-> NewSession]
    /\ sessionTotalCost = 0
    /\ sessionInputTokens = 0
    /\ sessionOutputTokens = 0
    /\ tokenFile = TokenFileData(0, 0, 0)
    /\ arrivals = <<"first">>
    /\ PureIdle

\* reader.read() resolves with a piece: lines 167-290
ReadPiece(s, value) ==
    /\ session[s].pc = "reading"
    /\ Len(session[s].received) < MaxPieces
    /\ session' = [session EXCEPT ![s] = HandleValue(@, value)]
    /\ UNCHANGED <<sessionTotalCost, sessionInputTokens, sessionOutputTokens,
                   tokenFile, arrivals>>

PiecesNext ==
    \/ \E s \in Sessions : Start(s) /\ UNCHANGED pureVars
    \/ \E s \in Sessions, value \in Pieces :
           ReadPiece(s, value) /\ UNCHANGED pureVars
    \/ \E s \in Sessions : ReadDone(s) /\ UNCHANGED pureVars

SpecPieces == PiecesInit /\ [][PiecesNext]_vars

\* the locals of a session that got the whole of text in one read
OneRead(text) ==
    HandleValue(Send([NewSession EXCEPT !.pc = "reading"], MessageStart),
                text)

\* C15: the events of a session are those of a session that reads the
\* concatenation of the same upstream values in one read, while it reads
\* and when the upstream has ended; so two ways of cutting one text give
\* the same events in the same order.
C15_SplitIndependent ==
    \A s \in Sessions :
        LET L   == session[s]
            one == OneRead(Concat(L.received))
        IN  /\ L.pc = "reading" => L.enqueued = one.enqueued
            /\ L.pc = "done" => L.enqueued = FinalEvents(one).enqueued

\* the upstream of two data lines came in four reads that cut both lines,
\* and the session sent the text block of both and the final events
C15_Witness ==
    \E s \in Sessions :
        /\ session[s].pc = "done"
        /\ session[s].received =
               << <<DATA>>, <<JA(1)>>, <<JB(1), NL, DATA, JA(2)>>,
                  <<JB(2), NL>> >>
        /\ Len(session[s].enqueued) = 7
        /\ session[s].enqueued[3] = TextDelta(0, "Hi")
        /\ session[s].enqueued[4] = TextDelta(0, " there")

-----------------------------------------------------------------------------
(* Two requests served at the same time by one handler: two closures, each *)
(* with its own locals, and the handler's counters shared.  The steps of   *)
(* the two sessions interleave at their awaits of reader.read().           *)

SharedSessions == {"s1", "s2"}

\* the values one reader.read() returns here: text without usage, text
\* with finish reason and usage, usage alone, usage without a candidate
SharedChunks == {FrameLine(1), FrameLine(2), FrameLine(4), FrameLine(5)}

SharedInit ==
    /\ session = [s \in SharedSessions |-> NewSession]
    /\ sessionTotalCost = 0
    /\ sessionInputTokens = 0
    /\ sessionOutputTokens = 0
    /\ tokenFile = TokenFileData(0, 0, 0)
    /\ arrivals = Arrivals
    /\ PureIdle

\* a request arrives while the other may be in progress
StartShared(s) ==
    /\ session[s].pc = "idle"
    /\ Start(s)

SharedNext ==
    \/ \E s \in SharedSessions : StartShared(s) /\ UNCHANGED pureVars
    \/ \E s \in SharedSessions, value \in SharedChunks :
           Read(s, value) /\ UNCHANGED pureVars
    \/ \E s \in SharedSessions : ReadDone(s) /\ UNCHANGED pureVars

SpecShared == SharedInit /\ [][SharedNext]_vars

\* the final token tallies of a session, 0 where it recorded no usage
OutputTally(L) == IF L.usage = Null THEN 0 ELSE L.usage.output_tokens

InputTally(L) == IF L.usage = Null THEN 0 ELSE L.usage.input_tokens

RECURSIVE SumOutputTally(_, _)
SumOutputTally(f, S) ==
    IF S = {} THEN 0
    ELSE LET s == CHOOSE x \in S : TRUE
         IN  OutputTally(f[s]) + SumOutputTally(f, S \ {s})

AllDone(f) == \A s \in SharedSessions : f[s].pc = "done"

\* C16 as stated: at the step that ends the last of the concurrent
\* sessions the output counter is the sum of the sessions' output tallies
\* and the input counter is the input tally of the session ending there.
C16_SharedCountersAsStated ==
    [][\A s \in SharedSessions :
           (DoneStep(session[s], session'[s]) /\ AllDone(session'))
               => /\ sessionOutputTokens' =
                         SumOutputTally(session', SharedSessions)
                  /\ sessionInputTokens' = InputTally(session'[s])]_vars

\* C16: the end of a session that recorded usage adds its output tally to
\* the output counter and stores its input tally in the input counter, the
\* end of a session without usage and every other step leave both alone;
\* so when all sessions have ended the output counter is the sum of the
\* tallies and the input counter is the input tally of the session that
\* ended last among those that recorded usage.
C16_SharedCounters ==
    [][/\ \A s \in SharedSessions :
              DoneStep(session[s], session'[s]) =>
                  /\ sessionOutputTokens' =
                         sessionOutputTokens + OutputTally(session'[s])
                  /\ sessionInputTokens' =
                         IF session'[s].usage # Null
                         THEN session'[s].usage.input_tokens
                         ELSE sessionInputTokens
                  /\ AllDone(session') =>
                         sessionOutputTokens' =
                             SumOutputTally(session', SharedSessions)
       /\ (\A s \in SharedSessions : ~DoneStep(session[s], session'[s]))
              => UNCHANGED <<sessionInputTokens, sessionOutputTokens>>]_vars

\* both sessions have ended with different tallies, the one with the input
\* tally 10 last, after reads of the other session
C16_Witness ==
    /\ AllDone(session)
    /\ session["s1"].usage = [input_tokens |-> 10, output_tokens |-> 2]
    /\ session["s2"].usage = [input_tokens |-> 5, output_tokens |-> 3]
    /\ Len(session["s1"].received) = 2
    /\ Len(session["s2"].received) = 3
    /\ sessionOutputTokens = 5
    /\ sessionInputTokens = 10

-----------------------------------------------------------------------------
(* JSON values of src/transform.ts.  An object is a function from its keys *)
(* to values, an array a sequence.                                         *)

JNull == [k |-> "null"]

JStr(x) == [k |-> "str", s |-> x]

JNum(x) == [k |-> "num", n |-> x]

JArr(x) == [k |-> "arr", a |-> x]

JObj(x) == [k |-> "obj", f |-> x]

\* JavaScript truthiness
Truthy(v) ==
    CASE v.k = "null" -> FALSE
      [] v.k = "str"  -> v.s # ""
      [] v.k = "num"  -> v.n # 0
      [] OTHER        -> TRUE

\* delete o[key]
Delete(o, key) == [x \in DOMAIN o \ {key} |-> o[x]]

\* o[key] = v
Put(o, key, v) == (key :> v) @@ o

-----------------------------------------------------------------------------
(* sanitizeRoot, src/transform.ts lines 36-67.                             *)

DROP_KEYS ==
    << "n", "presence_penalty", "frequency_penalty", "best_of", "logit_bias",
       "seed", "stream_options", "logprobs", "top_logprobs", "user",
       "response_format", "service_tier", "parallel_tool_calls", "functions",
       "function_call", "developer", "strict", "reasoning_effort" >>

\* the state of sanitizeRoot between its steps: the request and the list
Sanitizing(r, d) == [req |-> r, dropped |-> d]

\* Rename stop -> stop_sequences
RenameStop(st) ==
    IF "stop" \in DOMAIN st.req
    THEN LET stop == st.req["stop"]
         IN  Sanitizing(
                 Delete(Put(st.req, "stop_sequences",
                            IF stop.k = "arr" THEN stop ELSE JArr(<<stop>>)),
                        "stop"),
                 st.dropped)
    ELSE st

\* { ...req.metadata, user_id: req.user }
WithUserId(r) ==
    JObj(Put(IF "metadata" \in DOMAIN r /\ r["metadata"].k = "obj"
             THEN r["metadata"].f ELSE <<>>,
             "user_id", r["user"]))

\* the user step without its delete req.user
ConvertUserKeepsKey(st) ==
    IF "user" \in DOMAIN st.req /\ Truthy(st.req["user"])
    THEN Sanitizing(Put(st.req, "metadata", WithUserId(st.req)),
                    Append(st.dropped, "user"))
    ELSE st

\* Convert user -> metadata.user_id
ConvertUser(st) ==
    IF "user" \in DOMAIN st.req /\ Truthy(st.req["user"])
    THEN Sanitizing(Delete(Put(st.req, "metadata", WithUserId(st.req)),
                           "user"),
                    Append(st.dropped, "user"))
    ELSE st

\* for (const key of DROP_KEYS) { if (key in req) ... }
RECURSIVE DropLoop(_, _)
DropLoop(st, keys) ==
    IF keys = <<>> THEN st
    ELSE DropLoop(IF Head(keys) \in DOMAIN st.req
                  THEN Sanitizing(Delete(st.req, Head(keys)),
                                  Append(st.dropped, Head(keys)))
                  ELSE st,
                  Tail(keys))

\* if (req.max_tokens == null) req.max_tokens = 4096
EnsureMaxTokens(st) ==
    IF "max_tokens" \notin DOMAIN st.req \/ st.req["max_tokens"] = JNull
    THEN Sanitizing(Put(st.req, "max_tokens", JNum(4096)), st.dropped)
    ELSE st

sanitizeRoot(r) ==
    EnsureMaxTokens(
        DropLoop(ConvertUser(RenameStop(Sanitizing(r, <<>>))), DROP_KEYS))

\* most keys a request of the model carries
MaxReqKeys == 3

DropKeySet == {DROP_KEYS[i] : i \in DOMAIN DROP_KEYS}

RequestKeys == DropKeySet \cup {"stop", "max_tokens", "metadata", "model"}

\* the values a key of a request of the model can have
ValuesOf(key) ==
    CASE key = "user"       -> {JStr("u1"), JStr(""), JNull}
      [] key = "stop"       -> {JStr("x"), JArr(<<JStr("a"), JStr("b")>>)}
      [] key = "max_tokens" -> {JNum(100), JNull}
      [] key = "metadata"   -> {JObj([trace |-> JStr("t")])}
      [] key = "n"          -> {JNum(0), JNum(2)}
      [] OTHER              -> {JStr(key)}

\* the objects with at most n of the keys, each key with a value of its set
RECURSIVE ObjectsOver(_, _, _)
ObjectsOver(keys, values, n) ==
    IF keys = {} \/ n = 0 THEN {<<>>}
    ELSE LET key  == CHOOSE x \in keys : TRUE
         IN  ObjectsOver(keys \ {key}, values, n)
             \cup {Put(o, key, v) : o \in ObjectsOver(keys \ {key}, values, n - 1),
                                    v \in values[key]}

Requests ==
    ObjectsOver(RequestKeys, [key \in RequestKeys |-> ValuesOf(key)],
                MaxReqKeys)

SanitizeInit ==
    /\ StreamInit
    /\ req \in Requests
    /\ reqInput = req
    /\ dropped = <<>>
    /\ block = <<>>
    /\ sig = <<>>
    /\ part = <<>>
    /\ schema = <<>>
    /\ result = <<>>
    /\ stage = "input"

\* the call sanitizeRoot(req), which rewrites req in place
Sanitize ==
    /\ stage = "input"
    /\ req' = sanitizeRoot(req).req
    /\ dropped' = sanitizeRoot(req).dropped
    /\ stage' = "sanitized"
    /\ UNCHANGED <<reqInput, block, sig, part, schema, result>>
    /\ UNCHANGED streamVars

SanitizeNext == Sanitize

SpecSanitize == SanitizeInit /\ [][SanitizeNext]_vars

\* how often key occurs in list d
Occurrences(d, key) == Cardinality({i \in 1..Len(d) : d[i] = key})

\* C8: after sanitizeRoot no key of the drop-list is left on the request,
\* and the returned list holds each drop-list key that was on the input
\* exactly once, and nothing else.
C8_DropList ==
    stage = "sanitized" =>
        /\ \A key \in DropKeySet : key \notin DOMAIN req
        /\ \A key \in DropKeySet :
               Occurrences(dropped, key) =
                   IF key \in DOMAIN reqInput THEN 1 ELSE 0
        /\ \A i \in 1..Len(dropped) : dropped[i] \in DropKeySet

\* a request with a truthy user and two more drop-list keys was sanitized
C8_Witness ==
    /\ stage = "sanitized"
    /\ "user" \in DOMAIN reqInput
    /\ Truthy(reqInput["user"])
    /\ Len(dropped) = 3
    /\ "user_id" \in DOMAIN req["metadata"].f

-----------------------------------------------------------------------------
(* The tool_use branch of transformClaudeToGemini, src/transform.ts lines  *)
(* 495-520.  A string is the sequence of its characters.                   *)

\* '__ts_'
Separator == <<"_", "_", "t", "s", "_">>

\* s.indexOf(sep) as a position from 1, or 0 when sep does not occur
IndexOf(s, sep) ==
    LET hits == {i \in 1..(Len(s) - Len(sep) + 1) :
                     SubSeq(s, i, i + Len(sep) - 1) = sep}
    IN  IF hits = {} THEN 0
        ELSE CHOOSE i \in hits : \A j \in hits : i <= j

\* block.id.includes('__ts_')
Includes(s, sep) == IndexOf(s, sep) # 0

\* s.split(sep), for a separator that is not empty
RECURSIVE SplitOn(_, _)
SplitOn(s, sep) ==
    IF IndexOf(s, sep) = 0 THEN <<s>>
    ELSE <<SubSeq(s, 1, IndexOf(s, sep) - 1)>>
         \o SplitOn(SubSeq(s, IndexOf(s, sep) + Len(sep), Len(s)), sep)

\* the characters encodeURIComponent leaves as they are
Unreserved == {"_", "t", "s", "u", "1", "-", "."}

\* the escape of a character that is not left as it is
Escape(c) ==
    CASE c = "+" -> <<"%", "2", "B">>
      [] c = "/" -> <<"%", "2", "F">>
      [] c = "=" -> <<"%", "3", "D">>
      [] c = "%" -> <<"%", "2", "5">>

Escapable == {"+", "/", "=", "%"}

RECURSIVE encodeURIComponent(_)
encodeURIComponent(s) ==
    IF s = <<>> THEN <<>>
    ELSE (IF Head(s) \in Unreserved THEN <<Head(s)>> ELSE Escape(Head(s)))
         \o encodeURIComponent(Tail(s))

\* decodeURIComponent: the decoded string, or threw when a % is not
\* followed by the two hex digits of a character
RECURSIVE decodeURIComponent(_)
decodeURIComponent(s) ==
    IF s = <<>> THEN [threw |-> FALSE, value |-> <<>>]
    ELSE IF Head(s) # "%"
    THEN LET rest == decodeURIComponent(Tail(s))
         IN  [threw |-> rest.threw, value |-> <<Head(s)>> \o rest.value]
    ELSE IF \E c \in Escapable : Len(s) >= 3 /\ SubSeq(s, 1, 3) = Escape(c)
    THEN LET c    == CHOOSE x \in Escapable : SubSeq(s, 1, 3) = Escape(x)
             rest == decodeURIComponent(SubSeq(s, 4, Len(s)))
         IN  [threw |-> rest.threw, value |-> <<c>> \o rest.value]
    ELSE [threw |-> TRUE, value |-> <<>>]

\* const [, sigEncoded] = block.id.split('__ts_')
SigEncoded(id) == SplitOn(id, Separator)[2]

\* lines 498-520: the part pushed for a tool_use block
ToolUsePart(b) ==
    LET base == [functionCall |-> [name |-> b.name, args |-> b.input]]
    IN  IF /\ b.id # <<>>
           /\ Includes(b.id, Separator)
           /\ SigEncoded(b.id) # <<>>
           /\ ~decodeURIComponent(SigEncoded(b.id)).threw
        THEN [functionCall |-> base.functionCall,
              thoughtSignature |-> decodeURIComponent(SigEncoded(b.id)).value]
        ELSE base

\* longest signature of the model
MaxSigLen == 6

SigChars == {"_", "t", "s", "+"}

\* the sequences over S of length n
Strings(S, n) == [1..n -> S]

\* the signatures of the model
Signatures == UNION {Strings(SigChars, n) : n \in 1..MaxSigLen}

\* the prefixes of the model: toolu_1, and one that holds the separator
Prefixes ==
    { <<"t", "o", "o", "l", "u", "_", "1">>,
      <<"u", "_", "_", "t", "s", "_", "1">> }

SignatureInit ==
    /\ StreamInit
    /\ req = <<>>
    /\ reqInput = <<>>
    /\ dropped = <<>>
    /\ sig \in Signatures
    /\ \E prefix \in Prefixes :
           block = [type  |-> "tool_use",
                    id    |-> prefix \o Separator \o encodeURIComponent(sig),
                    name  |-> "f",
                    input |-> [a |-> 1]]
    /\ part = <<>>
    /\ schema = <<>>
    /\ result = <<>>
    /\ stage = "input"

\* the tool_use block goes through transformClaudeToGemini
TransformToolUse ==
    /\ stage = "input"
    /\ part' = ToolUsePart(block)
    /\ stage' = "transformed"
    /\ UNCHANGED <<req, reqInput, dropped, block, sig, schema, result>>
    /\ UNCHANGED streamVars

SignatureNext == TransformToolUse

SpecSignature == SignatureInit /\ [][SignatureNext]_vars

\* C9: for a tool_use block whose id is prefix + "__ts_" + the URL-encoding
\* of signature s, the emitted part has a thoughtSignature equal to s, next
\* to a functionCall that holds name and args only.
C9_SignatureVerbatim ==
    stage = "transformed" =>
        /\ "thoughtSignature" \in DOMAIN part
        /\ part.thoughtSignature = sig
        /\ DOMAIN part.functionCall = {"name", "args"}

-----------------------------------------------------------------------------
(* removeUriFormat, src/transform.ts lines 305-338.                        *)

\* typeof v === 'object': objects, arrays and null
TypeofObject(v) == v.k \in {"obj", "arr", "null"}

\* schema.type === 'string' && schema.format === 'uri'
IsUriString(v) ==
    /\ v.k = "obj"
    /\ "type" \in DOMAIN v.f
    /\ v.f["type"] = JStr("string")
    /\ "format" \in DOMAIN v.f
    /\ v.f["format"] = JStr("uri")

\* the keys that for (const propKey in v) visits
KeysIn(v) ==
    CASE v.k = "obj" -> DOMAIN v.f
      [] v.k = "arr" -> {ToString(i - 1) : i \in DOMAIN v.a}
      [] OTHER       -> {}

\* v[key], for a key of KeysIn(v)
Member(v, key) ==
    IF v.k = "obj" THEN v.f[key]
    ELSE v.a[CHOOSE i \in DOMAIN v.a : ToString(i - 1) = key]

RECURSIVE removeUriFormat(_)
removeUriFormat(v) ==
    IF ~Truthy(v) \/ ~TypeofObject(v) THEN v
    ELSE IF IsUriString(v) THEN JObj(Delete(v.f, "format"))
    ELSE IF v.k = "arr"
    THEN JArr([i \in DOMAIN v.a |-> removeUriFormat(v.a[i])])
    ELSE JObj([key \in DOMAIN v.f |->
             IF key = "properties" /\ TypeofObject(v.f[key])
             THEN JObj([propKey \in KeysIn(v.f[key]) |->
                          removeUriFormat(Member(v.f[key], propKey))])
             ELSE removeUriFormat(v.f[key])])

\* the leaf values of the schemas of the model
SchemaAtoms == {JStr("string"), JStr("uri")}

SchemaKeys == {"type", "format", "properties", "items", "anyOf"}

\* schemas without subschemas: {}, {type}, {format}, {type, format}
LeafSchemas ==
    {JObj(f) : f \in ObjectsOver({"type", "format"},
                                 [key \in {"type", "format"} |-> SchemaAtoms],
                                 Cardinality({"type", "format"}))}

NodeValues(key) ==
    CASE key = "properties" -> {JObj([link |-> x]) : x \in LeafSchemas}
      [] key = "items"      -> LeafSchemas
      [] key = "anyOf"      -> {JArr(<<x>>) : x \in LeafSchemas}
      [] OTHER              -> SchemaAtoms

\* the schemas of the model: one level of subschemas under properties,
\* items and anyOf
Schemas ==
    {JObj(f) : f \in ObjectsOver(SchemaKeys,
                                 [key \in SchemaKeys |-> NodeValues(key)],
                                 Cardinality(SchemaKeys))}

SchemaInit ==
    /\ StreamInit
    /\ req = <<>>
    /\ reqInput = <<>>
    /\ dropped = <<>>
    /\ block = <<>>
    /\ sig = <<>>
    /\ part = <<>>
    /\ schema \in Schemas
    /\ result = <<>>
    /\ stage = "input"

\* the call removeUriFormat(schema)
RemoveUri ==
    /\ stage = "input"
    /\ result' = removeUriFormat(schema)
    /\ stage' = "uri-removed"
    /\ UNCHANGED <<req, reqInput, dropped, block, sig, part, schema>>
    /\ UNCHANGED streamVars

SchemaNext == RemoveUri

SpecSchema == SchemaInit /\ [][SchemaNext]_vars

\* some object of v, at any depth, has a format field equal to "uri"
RECURSIVE HasUriFormat(_)
HasUriFormat(v) ==
    CASE v.k = "obj" ->
             \/ ("format" \in DOMAIN v.f /\ v.f["format"] = JStr("uri"))
             \/ \E key \in DOMAIN v.f : HasUriFormat(v.f[key])
      [] v.k = "arr" -> \E i \in DOMAIN v.a : HasUriFormat(v.a[i])
      [] OTHER       -> FALSE

\* v with the format field of every object that has it equal to "uri" taken
\* out and everything else as it is
RECURSIVE WithoutUriFormats(_)
WithoutUriFormats(v) ==
    CASE v.k = "obj" ->
             LET keep == {key \in DOMAIN v.f :
                              ~(key = "format" /\ v.f[key] = JStr("uri"))}
             IN  JObj([key \in keep |-> WithoutUriFormats(v.f[key])])
      [] v.k = "arr" -> JArr([i \in DOMAIN v.a |-> WithoutUriFormats(v.a[i])])
      [] OTHER       -> v

\* C10: the result of removeUriFormat has no object, at any depth, with a
\* format field equal to "uri", and every other field of the schema is in
\* it unchanged.
C10_NoUriFormatLeft ==
    stage = "uri-removed" =>
        /\ ~HasUriFormat(result)
        /\ result = WithoutUriFormats(schema)

-----------------------------------------------------------------------------
(* cleanSchemaForGemini, src/transform.ts lines 398-448.                   *)

UNSUPPORTED_FIELDS ==
    {"$schema", "additionalProperties", "exclusiveMinimum",
     "exclusiveMaximum", "multipleOf", "patternProperties", "dependencies",
     "const", "if", "then", "else", "allOf", "anyOf", "oneOf", "not"}

\* cleanSchemaForGemini with one more rule: a key whose value is an object
\* without keys is left out
RECURSIVE cleanSchemaForGeminiSkipsEmpty(_)
cleanSchemaForGeminiSkipsEmpty(v) ==
    IF ~Truthy(v) \/ ~TypeofObject(v) THEN v
    ELSE IF v.k = "arr"
    THEN JArr([i \in DOMAIN v.a |-> cleanSchemaForGeminiSkipsEmpty(v.a[i])])
    ELSE LET kept == {key \in DOMAIN v.f \ UNSUPPORTED_FIELDS :
                          v.f[key] # JObj(<<>>)}
         IN  JObj([key \in kept |->
                 IF key = "properties" /\ TypeofObject(v.f[key])
                 THEN JObj([propKey \in KeysIn(v.f[key]) |->
                              cleanSchemaForGeminiSkipsEmpty(
                                  Member(v.f[key], propKey))])
                 ELSE IF key = "items" /\ TypeofObject(v.f[key])
                 THEN cleanSchemaForGeminiSkipsEmpty(v.f[key])
                 ELSE IF TypeofObject(v.f[key]) /\ v.f[key].k # "arr"
                 THEN cleanSchemaForGeminiSkipsEmpty(v.f[key])
                 ELSE IF v.f[key].k = "arr"
                 THEN JArr([i \in DOMAIN v.f[key].a |->
                              IF TypeofObject(v.f[key].a[i])
                              THEN cleanSchemaForGeminiSkipsEmpty(v.f[key].a[i])
                              ELSE v.f[key].a[i]])
                 ELSE v.f[key]])

RECURSIVE cleanSchemaForGemini(_)
cleanSchemaForGemini(v) ==
    IF ~Truthy(v) \/ ~TypeofObject(v) THEN v
    ELSE IF v.k = "arr"
    THEN JArr([i \in DOMAIN v.a |-> cleanSchemaForGemini(v.a[i])])
    ELSE JObj([key \in DOMAIN v.f \ UNSUPPORTED_FIELDS |->
             IF key = "properties" /\ TypeofObject(v.f[key])
             THEN JObj([propKey \in KeysIn(v.f[key]) |->
                          cleanSchemaForGemini(Member(v.f[key], propKey))])
             ELSE IF key = "items" /\ TypeofObject(v.f[key])
             THEN cleanSchemaForGemini(v.f[key])
             ELSE IF TypeofObject(v.f[key]) /\ v.f[key].k # "arr"
             THEN cleanSchemaForGemini(v.f[key])
             ELSE IF v.f[key].k = "arr"
             THEN JArr([i \in DOMAIN v.f[key].a |->
                          IF TypeofObject(v.f[key].a[i])
                          THEN cleanSchemaForGemini(v.f[key].a[i])
                          ELSE v.f[key].a[i]])
             ELSE v.f[key]])

\* schemas without subschemas: {}, {type}, {const}, {type, const}
CleanLeaves ==
    {JObj(f) : f \in ObjectsOver({"type", "const"},
                                 [key \in {"type", "const"} |->
                                     IF key = "type" THEN {JStr("string")}
                                     ELSE {JNum(1)}],
                                 Cardinality({"type", "const"}))}

CleanKeys == {"const", "anyOf", "properties", "items", "default", "enum"}

\* the values a key of a schema of the model can have: supported and
\* unsupported keys, null, arrays, arrays in place of objects, a property
\* whose name is an unsupported field, and subschemas two levels down
CleanValues(key) ==
    CASE key = "const"      -> {JNum(1)}
      [] key = "anyOf"      -> {JArr(<<x>>) : x \in CleanLeaves}
      [] key = "properties" ->
             {JNull, JArr(<<JObj([const |-> JNum(1)])>>)}
             \cup {JObj([const |-> x]) : x \in CleanLeaves}
             \cup {JObj([a |-> JObj([items |-> x])]) : x \in CleanLeaves}
      [] key = "items"      ->
             {JNull} \cup CleanLeaves
             \cup {JArr(<<x, JNum(0)>>) : x \in CleanLeaves}
      [] key = "default"    -> {JNum(0), JStr("")} \cup CleanLeaves
      [] OTHER              ->
             {JArr(<<JStr("a"), JNull, x>>) :
                  x \in {y \in CleanLeaves : "const" \in DOMAIN y.f}}

CleanSchemas ==
    {JObj(f) : f \in ObjectsOver(CleanKeys,
                                 [key \in CleanKeys |-> CleanValues(key)],
                                 Cardinality(CleanKeys))}

CleanInit ==
    /\ StreamInit
    /\ req = <<>>
    /\ schema \in CleanSchemas
    /\ reqInput = schema
    /\ dropped = <<>>
    /\ block = <<>>
    /\ sig = <<>>
    /\ part = <<>>
    /\ result = <<>>
    /\ stage = "input"

\* the call cleanSchemaForGemini(schema)
Clean ==
    /\ stage = "input"
    /\ result' = cleanSchemaForGemini(schema)
    /\ stage' = "cleaned"
    /\ UNCHANGED <<req, reqInput, dropped, block, sig, part, schema>>
    /\ UNCHANGED streamVars

\* the call cleanSchemaForGemini on the result of the first call
CleanAgain ==
    /\ stage = "cleaned"
    /\ schema' = result
    /\ result' = cleanSchemaForGemini(result)
    /\ stage' = "cleaned-twice"
    /\ UNCHANGED <<req, reqInput, dropped, block, sig, part>>
    /\ UNCHANGED streamVars

CleanNext == Clean \/ CleanAgain

SpecClean == CleanInit /\ [][CleanNext]_vars

\* some object of v, at any depth, has field key
RECURSIVE HasKey(_, _)
HasKey(v, key) ==
    CASE v.k = "obj" ->
             \/ key \in DOMAIN v.f
             \/ \E x \in DOMAIN v.f : HasKey(v.f[x], key)
      [] v.k = "arr" -> \E i \in DOMAIN v.a : HasKey(v.a[i], key)
      [] OTHER       -> FALSE

\* C11: cleanSchemaForGemini is idempotent: applied to its own result (the
\* argument of the second call, kept in schema) it returns that result.
C11_CleanIdempotent ==
    stage = "cleaned-twice" => result = schema

\* a schema with an unsupported field at the top and one under properties
\* was pruned twice, and the first pruning changed it
C11_Witness ==
    /\ stage = "cleaned-twice"
    /\ schema # reqInput
    /\ "anyOf" \in DOMAIN reqInput.f
    /\ "properties" \in DOMAIN reqInput.f
    /\ reqInput.f["properties"].k = "obj"
    /\ HasKey(reqInput.f["properties"], "items")
    /\ HasKey(reqInput.f["properties"], "const")
    /\ "properties" \in DOMAIN result.f

=============================================================================
